---- MODULE Spec2Model ----
(***************************************************************************)
(* A model of parse_logs.py: the Apache common-format line parser          *)
(* (fix_line_dict), the fetch classifier (fetch / has_image), and the      *)
(* main program loop: ingest, per-customer aggregation, and the scan for   *)
(* the busiest 5 minute interval.                                          *)
(*                                                                         *)
(* Python strings are TLA+ strings, read one character at a time with      *)
(* SubSeq.  A Python value that is either None or a string is a record     *)
(* [some, text]; the status field, which is a string until fetch converts  *)
(* it, is a record [type, text, num].  A datetime is the number of seconds *)
(* since 2000-01-01 00:00:00, which orders and adds as datetime does.      *)
(***************************************************************************)
EXTENDS Integers, Sequences, FiniteSets, Bags, TLC

(***************************************************************************)
(* Python string primitives.                                               *)
(***************************************************************************)
\* s[i], or the empty string past either end
Char(s, i) == IF 1 <= i /\ i <= Len(s) THEN SubSeq(s, i, i) ELSE ""

Digits == {"0", "1", "2", "3", "4", "5", "6", "7", "8", "9"}

Spaces == {" ", "\t"}

IsSpace(c) == c \in Spaces

\* the Python expression  sub in s
Contains(sub, s) ==
  \E i \in 1..(Len(s) - Len(sub) + 1) : SubSeq(s, i, i + Len(sub) - 1) = sub

\* the first index >= p whose character is in cs (when member) or is not in
\* cs (when not member), or Len(s) + 1 when there is none
RECURSIVE ScanTo(_, _, _, _)
ScanTo(s, p, cs, member) ==
  IF p > Len(s) THEN Len(s) + 1
  ELSE IF (Char(s, p) \in cs) = member THEN p
  ELSE ScanTo(s, p + 1, cs, member)

\* str.split(): the maximal runs of non-whitespace characters, in order
RECURSIVE SplitWs(_, _)
SplitWs(s, p) ==
  LET b == ScanTo(s, p, Spaces, FALSE)
      e == ScanTo(s, b, Spaces, TRUE)
  IN  IF b > Len(s) THEN << >>
      ELSE <<SubSeq(s, b, e - 1)>> \o SplitWs(s, e)

\* str.split(sep) for a one-character sep: empty pieces are kept
RECURSIVE SplitOn(_, _, _)
SplitOn(s, sep, p) ==
  LET e == ScanTo(s, p, {sep}, TRUE)
  IN  IF e > Len(s) THEN <<SubSeq(s, p, Len(s))>>
      ELSE <<SubSeq(s, p, e - 1)>> \o SplitOn(s, sep, e + 1)

AllDigits(s) == Len(s) >= 1 /\ \A i \in 1..Len(s) : Char(s, i) \in Digits

DigitVal(c) == CHOOSE n \in 0..9 : Char("0123456789", n + 1) = c

RECURSIVE DecimalVal(_)
DecimalVal(s) ==
  IF Len(s) = 0 THEN 0
  ELSE 10 * DecimalVal(SubSeq(s, 1, Len(s) - 1)) + DigitVal(Char(s, Len(s)))

\* int(s) for a str s: an optional sign and decimal digits, else ValueError
IntOk(s) ==
  IF Len(s) >= 1 /\ Char(s, 1) \in {"-", "+"}
  THEN AllDigits(SubSeq(s, 2, Len(s)))
  ELSE AllDigits(s)

IntVal(s) ==
  IF Char(s, 1) = "-" THEN 0 - DecimalVal(SubSeq(s, 2, Len(s)))
  ELSE IF Char(s, 1) = "+" THEN DecimalVal(SubSeq(s, 2, Len(s)))
  ELSE DecimalVal(s)

\* a value that is None or a str
None == [some |-> FALSE, text |-> ""]

Str(s) == [some |-> TRUE, text |-> s]

Min(S) == CHOOSE m \in S : \A n \in S : m <= n

Max(S) == CHOOSE m \in S : \A n \in S : m >= n

(***************************************************************************)
(* apache_common_format.match(logline).  The pattern is anchored at the    *)
(* start of the line only.  host, identd, user, status and bytes are       *)
(* greedy runs that the following \s ends; time, request and referer are   *)
(* lazy, so each ends at the first closing delimiter followed by \s from   *)
(* which the rest of the pattern still matches.  Each m_<group>(s, p)      *)
(* matches the pattern from that group on, at index p of s, and yields     *)
(* the groups matched from there on.                                       *)
(***************************************************************************)
NoMatch ==
  [ok |-> FALSE, host |-> "", identd |-> "", user |-> "", time |-> "",
   request |-> "", status |-> "", bytes |-> "", referer |-> "",
   user_agent |-> ""]

Quote == "\""

\* the ways a lazy group opened at p can end: at a closing delimiter at q
\* that \s follows; rest(q) is the match of the rest of the pattern there
Closers(s, p, close) ==
  {q \in (p + 1)..Len(s) : Char(s, q) = close /\ IsSpace(Char(s, q + 1))}

\* a lazy group  open (.*?) close \s : the shortest text that lets the rest
\* of the pattern match
LazyGroup(s, p, open, name, R) ==
  LET good  == {x \in R : x.rest.ok}
      first == CHOOSE x \in good : \A y \in good : x.q <= y.q
  IN  IF Char(s, p) = open /\ good # {}
      THEN [first.rest EXCEPT ![name] = SubSeq(s, p + 1, first.q - 1)]
      ELSE NoMatch

\* a greedy run of s[p .. e - 1] that \s at e must end, at least least long
GreedyGroup(s, p, e, least, name, rest) ==
  IF e - p >= least /\ IsSpace(Char(s, e)) /\ rest.ok
  THEN [rest EXCEPT ![name] = SubSeq(s, p, e - 1)]
  ELSE NoMatch

\* "(?P<user_agent>.*?)"\s*
m_user_agent(s, p) ==
  IF Char(s, p) = Quote /\ ScanTo(s, p + 1, {Quote}, TRUE) <= Len(s)
  THEN [NoMatch EXCEPT !.ok = TRUE,
          !.user_agent = SubSeq(s, p + 1, ScanTo(s, p + 1, {Quote}, TRUE) - 1)]
  ELSE NoMatch

\* "(?P<referer>.*?)"\s
m_referer(s, p) ==
  LazyGroup(s, p, Quote, "referer",
            {[q |-> q, rest |-> m_user_agent(s, q + 2)] :
               q \in Closers(s, p, Quote)})

\* (?P<bytes>\S*)\s
m_bytes(s, p) ==
  GreedyGroup(s, p, ScanTo(s, p, Spaces, TRUE), 0, "bytes",
              m_referer(s, ScanTo(s, p, Spaces, TRUE) + 1))

\* (?P<status>\d+)\s
m_status(s, p) ==
  GreedyGroup(s, p, ScanTo(s, p, Digits, FALSE), 1, "status",
              m_bytes(s, ScanTo(s, p, Digits, FALSE) + 1))

\* "(?P<request>.*?)"\s
m_request(s, p) ==
  LazyGroup(s, p, Quote, "request",
            {[q |-> q, rest |-> m_status(s, q + 2)] :
               q \in Closers(s, p, Quote)})

\* \[(?P<time>.*?)\]\s
m_time(s, p) ==
  LazyGroup(s, p, "[", "time",
            {[q |-> q, rest |-> m_request(s, q + 2)] :
               q \in Closers(s, p, "]")})

\* (?P<user>\S*)\s
m_user(s, p) ==
  GreedyGroup(s, p, ScanTo(s, p, Spaces, TRUE), 0, "user",
              m_time(s, ScanTo(s, p, Spaces, TRUE) + 1))

\* (?P<identd>\S*)\s
m_identd(s, p) ==
  GreedyGroup(s, p, ScanTo(s, p, Spaces, TRUE), 0, "identd",
              m_user(s, ScanTo(s, p, Spaces, TRUE) + 1))

\* the whole pattern, from (?P<host>[\d\.]+)\s on; the result's fields are
\* match.groupdict(), and ok is false where match() returns None
apache_common_format(s) ==
  GreedyGroup(s, 1, ScanTo(s, 1, Digits \cup {"."}, FALSE), 1, "host",
              m_identd(s, ScanTo(s, 1, Digits \cup {"."}, FALSE) + 1))

(***************************************************************************)
(* datetime.strptime(time, "%d/%b/%Y:%H:%M:%S").  The directives are one   *)
(* or two digits (%Y: four), the month name is matched without regard to   *)
(* case, and the datetime constructor then rejects a day the month does    *)
(* not have and a second above 59.                                         *)
(***************************************************************************)
Upper == "ABCDEFGHIJKLMNOPQRSTUVWXYZ"

Lower == "abcdefghijklmnopqrstuvwxyz"

LowerChar(c) ==
  IF \E i \in 1..26 : Char(Upper, i) = c
  THEN Char(Lower, CHOOSE i \in 1..26 : Char(Upper, i) = c)
  ELSE c

RECURSIVE LowerStr(_)
LowerStr(s) ==
  IF Len(s) = 0 THEN ""
  ELSE LowerChar(Char(s, 1)) \o LowerStr(SubSeq(s, 2, Len(s)))

MonthNames == <<"jan", "feb", "mar", "apr", "may", "jun",
                "jul", "aug", "sep", "oct", "nov", "dec">>

IsLeap(y) == y % 4 = 0 /\ (y % 100 # 0 \/ y % 400 = 0)

DaysInMonth(y, m) ==
  IF m = 2 THEN (IF IsLeap(y) THEN 29 ELSE 28)
  ELSE IF m \in {4, 6, 9, 11} THEN 30 ELSE 31

RECURSIVE DaysBeforeMonth(_, _)
DaysBeforeMonth(y, m) ==
  IF m = 1 THEN 0 ELSE DaysBeforeMonth(y, m - 1) + DaysInMonth(y, m - 1)

DaysBeforeYear(y) ==
  365 * (y - 1) + ((y - 1) \div 4) - ((y - 1) \div 100) + ((y - 1) \div 400)

\* the proleptic Gregorian ordinal of 2000-01-01
EpochOrdinal == 730120

SecondsPerDay == 86400

\* the datetime, as seconds since 2000-01-01 00:00:00
datetime(y, mo, d, h, mi, sec) ==
  (DaysBeforeYear(y) + DaysBeforeMonth(y, mo) + d - EpochOrdinal) * SecondsPerDay
    + h * 3600 + mi * 60 + sec

\* datetime.date(), as a day number
date(t) == t \div SecondsPerDay

OneOrTwoDigits(s) == AllDigits(s) /\ Len(s) <= 2

strptime(text) ==
  LET a   == SplitOn(text, "/", 1)
      b   == SplitOn(a[3], ":", 1)
      mon == LowerStr(a[2])
      mo  == CHOOSE i \in 1..12 : MonthNames[i] = mon
      y   == DecimalVal(b[1])
      d   == DecimalVal(a[1])
      h   == DecimalVal(b[2])
      mi  == DecimalVal(b[3])
      sec == DecimalVal(b[4])
  IN  IF /\ Len(a) = 3
         /\ Len(b) = 4
         /\ OneOrTwoDigits(a[1])
         /\ \E i \in 1..12 : MonthNames[i] = mon
         /\ AllDigits(b[1]) /\ Len(b[1]) = 4
         /\ OneOrTwoDigits(b[2]) /\ OneOrTwoDigits(b[3]) /\ OneOrTwoDigits(b[4])
         /\ y >= 1
         /\ d >= 1 /\ d <= DaysInMonth(y, mo)
         /\ h <= 23 /\ mi <= 59 /\ sec <= 59
      THEN [ok |-> TRUE, value |-> datetime(y, mo, d, h, mi, sec)]
      ELSE [ok |-> FALSE, value |-> 0]

(***************************************************************************)
(* fix_line_dict(logline): the cleaned-up dictionary, or the exception     *)
(* the first failing statement raises.                                     *)
(***************************************************************************)
StrStatus(s) == [type |-> "str", text |-> s, num |-> 0]

IntStatus(n) == [type |-> "int", text |-> "", num |-> n]

NoDict ==
  [host |-> "", identd |-> None, user |-> None, time |-> 0, request |-> "",
   status |-> StrStatus(""), bytes |-> 0, referer |-> None,
   user_agent |-> None, image_filename |-> "", client_id |-> ""]

Raise(e) == [err |-> e, linedict |-> NoDict]

\* a variant that also drops the empty string
DashToNone_falsy(s) == IF s = "-" \/ s = "" THEN None ELSE Str(s)

\* "-" becomes None, any other text is kept
DashToNone(s) == IF s = "-" THEN None ELSE Str(s)

\* lines 145-169, on the groups of a line that matched
fix_groups(match) ==
  LET tz         == SplitWs(match.time, 1)
      when       == strptime(tz[1])
      req        == SplitWs(match.request, 1)
      image_path == req[2]
      split_path == SplitOn(image_path, "/", 1)
  IN  IF match.bytes # "-" /\ ~IntOk(match.bytes) THEN Raise("ValueError")
      ELSE IF Len(tz) # 2 THEN Raise("ValueError")
      ELSE IF ~when.ok THEN Raise("ValueError")
      ELSE IF Len(req) < 2 THEN Raise("IndexError")
      ELSE IF Len(split_path) < 3 THEN Raise("IndexError")
      ELSE [err |-> "none",
            linedict |->
              [host           |-> match.host,
               identd         |-> Str(match.identd),
               user           |-> DashToNone(match.user),
               time           |-> when.value,
               request        |-> match.request,
               status         |-> StrStatus(match.status),
               bytes          |-> IF match.bytes = "-" THEN 0
                                  ELSE IntVal(match.bytes),
               referer        |-> DashToNone(match.referer),
               user_agent     |-> DashToNone(match.user_agent),
               image_filename |-> split_path[Len(split_path)],
               client_id      |-> split_path[3]]]

\* lines 143-144: None has no groupdict
groupdict(match) ==
  IF ~match.ok THEN Raise("AttributeError") ELSE fix_groups(match)

fix_line_dict(logline) == groupdict(apache_common_format(logline))

(***************************************************************************)
(* has_image(request) and fetch(hit).  fetch first stores int(status)      *)
(* back into the dictionary it was given: fetch_hit is that dictionary     *)
(* after the call, fetch the value returned.                               *)
(***************************************************************************)
exts == <<"jpg", "png", "gif">>

has_image(request) == \E i \in 1..Len(exts) : Contains(exts[i], request)

\* int(x) for a status that is a str of digits or already an int
int(status) ==
  IF status.type = "int" THEN status.num ELSE DecimalVal(status.text)

fetch_hit(hit) == [hit EXCEPT !.status = IntStatus(int(hit.status))]

fetch(hit) ==
  LET h == fetch_hit(hit)
  IN  IF h.status.num < 200 \/ h.status.num >= 300 THEN FALSE
      ELSE IF ~Contains("GET", h.request) THEN FALSE
      ELSE IF ~has_image(h.request) THEN FALSE
      ELSE TRUE

(***************************************************************************)
(* The lines the datastore generator can yield.                            *)
(***************************************************************************)
Line(host, identd, user, time, request, status, bytes, referer, agent) ==
  host \o " " \o identd \o " " \o user \o " [" \o time \o "] " \o Quote
    \o request \o Quote \o " " \o status \o " " \o bytes \o " " \o Quote
    \o referer \o Quote \o " " \o Quote \o agent \o Quote

FetchLines ==
  { Line("1.2.3.4", "-", "-", "26/Oct/2016:10:00:00 -0700",
         "GET /a/alice/img.jpg HTTP/1.1", "200", "100", "-", "Mozilla"),
    Line("1.2.3.5", "-", "-", "26/Oct/2016:10:00:01 -0700",
         "GET /a/alice/img.jpg HTTP/1.1", "200", "100", "-", "Mozilla"),
    Line("1.2.3.4", "-", "-", "26/Oct/2016:10:04:00 -0700",
         "GET /p/pngco/doc.pdf HTTP/1.1", "200", "50", "-", "Mozilla"),
    Line("1.2.3.6", "id", "frank", "26/Oct/2016:10:10:00 -0700",
         "POST /g/GETty/a.gif HTTP/1.1", "204", "70", "http://r/", "curl"),
    Line("1.2.3.4", "-", "", "26/Oct/2016:10:07:00 -0700",
         "GET /b/bob/x.png HTTP/1.1", "200", "-", "", "-"),
    Line("1.2.3.7", "-", "-", "26/Oct/2016:10:05:00 -0700",
         "GET /b/bob/y.gif HTTP/1.1", "299", "-5", "-", "Mozilla") }

OtherLines ==
  { Line("1.2.3.4", "-", "-", "26/Oct/2016:10:00:02 -0700",
         "GET /a/alice/doc.pdf HTTP/1.1", "200", "100", "-", "Mozilla"),
    Line("1.2.3.4", "-", "-", "26/Oct/2016:10:00:03 -0700",
         "GET /b/bob/x.png HTTP/1.1", "404", "100", "-", "Mozilla"),
    Line("1.2.3.4", "-", "-", "26/Oct/2016:10:00:04 -0700",
         "GET /b/bob/x.png HTTP/1.1", "301", "100", "-", "Mozilla"),
    Line("1.2.3.4", "-", "-", "26/Oct/2016:10:00:05 -0700",
         "GET /b/bob/x.png HTTP/1.1", "500", "100", "-", "Mozilla"),
    Line("1.2.3.4", "-", "-", "26/Oct/2016:10:00:06 -0700",
         "PUT /b/bob/x.png HTTP/1.1", "200", "100", "-", "Mozilla"),
    Line("1.2.3.4", "-", "-", "26/Oct/2016:10:00:07 -0700",
         "get /b/bob/x.png HTTP/1.1", "200", "100", "-", "Mozilla") }

BadLines ==
  { Line("1.2.3.4", "-", "-", "26/Oct/2016:10:00:00 -0700",
         "GET /a/alice/img.jpg HTTP/1.1", "2x0", "100", "-", "Mozilla"),
    "not a log line",
    Line("1.2.3.4", "-", "-", "26/Oct/2016:10:00:00 -0700",
         "GET /a/alice/img.jpg HTTP/1.1", "200", "abc", "-", "Mozilla"),
    Line("1.2.3.4", "-", "-", "26/Oct/2016:10:00:00",
         "GET /a/alice/img.jpg HTTP/1.1", "200", "100", "-", "Mozilla"),
    Line("1.2.3.4", "-", "-", "31/Apr/2016:10:00:00 -0700",
         "GET /a/alice/img.jpg HTTP/1.1", "200", "100", "-", "Mozilla"),
    Line("1.2.3.4", "-", "-", "26/Oct/2016:10:00:00 -0700",
         "GET", "200", "100", "-", "Mozilla"),
    Line("1.2.3.4", "-", "-", "26/Oct/2016:10:00:00 -0700",
         "GET /img.jpg HTTP/1.1", "200", "100", "-", "Mozilla") }

InputLines == FetchLines \cup OtherLines \cup BadLines

\* the most lines one run reads
MaxLines == 3

(***************************************************************************)
(* main: the state is main's local variables and its position.             *)
(***************************************************************************)
VARIABLES
  pc,          \* position in main
  nread,       \* lines taken from the generator so far
  page,        \* the loop variable of line 198
  record,      \* the dictionary of line 199
  records,     \* the list of line 194
  error,       \* the exception that ended the run, or "none"
  stats,       \* what the customer loop prints, by customer
  high_hits, high_bytes, mintime, maxtime, time,
  bytestime, hitstime,     \* assigned at line 236
  bytes_time, hits_time,   \* assigned at lines 241 and 246
  steps,       \* iterations of the while loop so far
  report       \* what lines 250-253 print

vars == <<pc, nread, page, record, records, error, stats, high_hits,
          high_bytes, mintime, maxtime, time, bytestime, hitstime,
          bytes_time, hits_time, steps, report>>

scanvars == <<high_hits, high_bytes, mintime, maxtime, time, bytestime,
              hitstime, bytes_time, hits_time, steps>>

\* a local name that has no value yet
Unbound == [bound |-> FALSE, value |-> 0]

Bound(v) == [bound |-> TRUE, value |-> v]

NoReport == [hits |-> FALSE, bytes |-> FALSE, hits_time |-> 0, high_hits |-> 0,
             bytes_time |-> 0, high_bytes |-> 0]

Init ==
  /\ pc = "read"
  /\ nread = 0
  /\ page = ""
  /\ record = NoDict
  /\ records = << >>
  /\ error = "none"
  /\ stats = << >>
  /\ high_hits = 0 /\ high_bytes = 0
  /\ mintime = 0 /\ maxtime = 0 /\ time = 0
  /\ bytestime = 0 /\ hitstime = 0
  /\ bytes_time = Unbound /\ hits_time = Unbound
  /\ steps = 0
  /\ report = NoReport

\* a variant that stores what it has when the line fails to parse
NextPage_keep_partial(line) ==
  /\ pc = "read"
  /\ nread < MaxLines
  /\ LET r == fix_line_dict(line)
     IN  /\ page' = line
         /\ nread' = nread + 1
         /\ IF r.err = "none"
            THEN /\ record' = r.linedict
                 /\ records' = records
                 /\ pc' = "classify"
                 /\ error' = error
            ELSE /\ record' = record
                 /\ records' = Append(records, r.linedict)
                 /\ pc' = "error"
                 /\ error' = r.err
  /\ UNCHANGED <<stats, scanvars, report>>

\* lines 198-199: the generator yields a line and fix_line_dict parses it;
\* an exception leaves main
NextPage(line) ==
  /\ pc = "read"
  /\ nread < MaxLines
  /\ LET r == fix_line_dict(line)
     IN  /\ page' = line
         /\ nread' = nread + 1
         /\ IF r.err = "none"
            THEN /\ record' = r.linedict
                 /\ pc' = "classify"
                 /\ error' = error
            ELSE /\ record' = record
                 /\ pc' = "error"
                 /\ error' = r.err
  /\ UNCHANGED <<records, stats, scanvars, report>>

\* a variant that stores the record whatever fetch returns
Classify_unfiltered ==
  /\ pc = "classify"
  /\ record' = fetch_hit(record)
  /\ records' = Append(records, fetch_hit(record))
  /\ pc' = "read"
  /\ UNCHANGED <<nread, page, error, stats, scanvars, report>>

\* lines 200-201
Classify ==
  /\ pc = "classify"
  /\ record' = fetch_hit(record)
  /\ records' = IF fetch(record) THEN Append(records, fetch_hit(record))
                ELSE records
  /\ pc' = "read"
  /\ UNCHANGED <<nread, page, error, stats, scanvars, report>>

\* line 198, the generator is exhausted
EndOfPages ==
  /\ pc = "read"
  /\ pc' = "aggregate"
  /\ UNCHANGED <<nread, page, record, records, error, stats, scanvars, report>>

(***************************************************************************)
(* Python collection primitives used by the analytics.                     *)
(***************************************************************************)
\* Counter(iterable), as a bag
RECURSIVE Counter(_)
Counter(seq) ==
  IF seq = << >> THEN EmptyBag
  ELSE Counter(Tail(seq)) (+) SetToBag({Head(seq)})

\* [f(x) for x in seq]
RECURSIVE Project(_, _)
Project(seq, field) ==
  IF seq = << >> THEN << >>
  ELSE <<Head(seq)[field]>> \o Project(Tail(seq), field)

\* sum(iterable of int)
RECURSIVE sum(_)
sum(seq) == IF seq = << >> THEN 0 ELSE Head(seq) + sum(Tail(seq))

Range(seq) == {seq[i] : i \in 1..Len(seq)}

\* records of one customer, in store order
OfCustomer(recs, customer) ==
  SelectSeq(recs, LAMBDA x : x.client_id = customer)

\* records no later than t, in store order
UpTo(recs, t) == SelectSeq(recs, LAMBDA x : x.time <= t)

\* a variant that counts the distinct requests: len(Counter(requests))
hits_of_distinct(recs, customer) ==
  Cardinality(BagToSet(Counter(Project(OfCustomer(recs, customer), "request"))))

\* lines 210-211: len(list(Counter(requests).elements()))
hits_of(recs, customer) ==
  BagCardinality(Counter(Project(OfCustomer(recs, customer), "request")))

\* line 213
total_bytes_of(recs, customer) ==
  sum(Project(OfCustomer(recs, customer), "bytes"))

\* lines 218-226: for each date of the customer, the number of distinct hosts
visits_of(recs, customer) ==
  LET mine     == OfCustomer(recs, customer)
      dates    == BagToSet(Counter(Project(mine, "time")))
      calendar == {date(d) : d \in dates}
  IN  [day \in calendar |->
         Cardinality({r.host : r \in {x \in Range(mine) : date(x.time) = day}})]

\* lines 203-227: the customer loop; it prints and keeps nothing
Aggregate ==
  /\ pc = "aggregate"
  /\ LET customers == {r.client_id : r \in Range(records)}
     IN  stats' = [c \in customers |->
                     [hits        |-> hits_of(records, c),
                      total_bytes |-> total_bytes_of(records, c),
                      visits      |-> visits_of(records, c)]]
  /\ pc' = "scan_init"
  /\ UNCHANGED <<nread, page, record, records, error, scanvars, report>>

\* constant for 5 minutes in seconds
_5minutes_ == 5 * 60

\* a variant that leaves out the records at the cursor itself
bytes_test_before(recs, t) ==
  sum(Project(SelectSeq(recs, LAMBDA x : x.time < t), "bytes"))

\* line 238
bytes_test(recs, t) == sum(Project(UpTo(recs, t), "bytes"))

\* line 243: len(Counter(requests)), the number of distinct requests
hits_test(recs, t) ==
  Cardinality(BagToSet(Counter(Project(UpTo(recs, t), "request"))))

\* a variant that scans an empty store from time 0
ScanInit_default ==
  /\ pc = "scan_init"
  /\ high_hits' = 0
  /\ high_bytes' = 0
  /\ LET times   == {r.time : r \in Range(records)}
         timeset == IF times = {} THEN {0} ELSE times
     IN  /\ mintime' = Min(timeset)
         /\ maxtime' = Max(timeset)
         /\ time' = Min(timeset)
         /\ bytestime' = Min(timeset)
         /\ hitstime' = Min(timeset)
         /\ pc' = "scan"
         /\ error' = error
  /\ UNCHANGED <<nread, page, record, records, stats, bytes_time, hits_time,
                 steps, report>>

\* lines 230-236; min() of an empty set raises ValueError
ScanInit ==
  /\ pc = "scan_init"
  /\ high_hits' = 0
  /\ high_bytes' = 0
  /\ LET timeset == {r.time : r \in Range(records)}
     IN  IF timeset = {}
         THEN /\ pc' = "error"
              /\ error' = "ValueError"
              /\ UNCHANGED <<mintime, maxtime, time, bytestime, hitstime>>
         ELSE /\ mintime' = Min(timeset)
              /\ maxtime' = Max(timeset)
              /\ time' = Min(timeset)
              /\ bytestime' = Min(timeset)
              /\ hitstime' = Min(timeset)
              /\ pc' = "scan"
              /\ error' = error
  /\ UNCHANGED <<nread, page, record, records, stats, bytes_time, hits_time,
                 steps, report>>

\* lines 237-248: one iteration of the while loop
ScanStep ==
  /\ pc = "scan"
  /\ time <= maxtime
  /\ IF bytes_test(records, time) > high_bytes
     THEN /\ high_bytes' = bytes_test(records, time)
          /\ bytes_time' = Bound(time)
     ELSE UNCHANGED <<high_bytes, bytes_time>>
  /\ IF hits_test(records, time) > high_hits
     THEN /\ high_hits' = hits_test(records, time)
          /\ hits_time' = Bound(time)
     ELSE UNCHANGED <<high_hits, hits_time>>
  /\ time' = time + _5minutes_
  /\ steps' = steps + 1
  /\ UNCHANGED <<pc, nread, page, record, records, error, stats, mintime,
                 maxtime, bytestime, hitstime, report>>

\* line 237: the loop condition fails
ScanExit ==
  /\ pc = "scan"
  /\ ~(time <= maxtime)
  /\ pc' = "report_hits"
  /\ UNCHANGED <<nread, page, record, records, error, stats, scanvars, report>>

\* lines 250-251; reading a local that was never assigned raises
\* UnboundLocalError
ReportHits ==
  /\ pc = "report_hits"
  /\ IF hits_time.bound
     THEN /\ report' = [report EXCEPT !.hits = TRUE,
                                      !.hits_time = hits_time.value,
                                      !.high_hits = high_hits]
          /\ pc' = "report_bytes"
          /\ error' = error
     ELSE /\ report' = report
          /\ pc' = "error"
          /\ error' = "UnboundLocalError"
  /\ UNCHANGED <<nread, page, record, records, stats, scanvars>>

\* lines 252-253
ReportBytes ==
  /\ pc = "report_bytes"
  /\ IF bytes_time.bound
     THEN /\ report' = [report EXCEPT !.bytes = TRUE,
                                      !.bytes_time = bytes_time.value,
                                      !.high_bytes = high_bytes]
          /\ pc' = "done"
          /\ error' = error
     ELSE /\ report' = report
          /\ pc' = "error"
          /\ error' = "UnboundLocalError"
  /\ UNCHANGED <<nread, page, record, records, stats, scanvars>>

Next ==
  \/ \E line \in InputLines : NextPage(line)
  \/ Classify
  \/ EndOfPages
  \/ Aggregate
  \/ ScanInit
  \/ ScanStep
  \/ ScanExit
  \/ ReportHits
  \/ ReportBytes

Spec == Init /\ [][Next]_vars

(***************************************************************************)
(* Properties.  They speak of the store by index and do not go through     *)
(* the operators of the analytics above.                                   *)
(***************************************************************************)
ImageExts == {"jpg", "png", "gif"}

StatusNum(r) == IF r.status.type = "int" THEN r.status.num
                ELSE DecimalVal(r.status.text)

Idx == 1..Len(records)

\* the sum of g[i] over the indices in I
RECURSIVE SumOver(_, _)
SumOver(I, g) ==
  IF I = {} THEN 0
  ELSE LET i == CHOOSE j \in I : TRUE IN g[i] + SumOver(I \ {i}, g)

\* the sum of bytes over the store's records with timestamp <= t
CumBytes(t) ==
  SumOver({i \in Idx : records[i].time <= t}, [i \in Idx |-> records[i].bytes])

\* the number of distinct request lines among the records with timestamp <= t
CumRequests(t) == Cardinality({records[i].request : i \in {j \in Idx : records[j].time <= t}})

\* the cursor values the scan samples
Samples == {mintime + 300 * k : k \in 0..((maxtime - mintime) \div 300)}

LastSample == mintime + 300 * ((maxtime - mintime) \div 300)

ScanFinished == pc \in {"report_hits", "report_bytes", "done"}

Aggregated == pc \in {"scan_init", "scan", "report_hits", "report_bytes", "done"}

\* C1: every record in the store has a status in [200, 300), a request that
\* contains GET and a request that contains jpg, png or gif; the store never
\* holds more records than lines were read, so a rejected or failed line
\* has left nothing in it.
C1_StoreHoldsOnlyFetches ==
  /\ \A i \in Idx :
       /\ records[i].status.type = "int"
       /\ records[i].status.num >= 200 /\ records[i].status.num < 300
       /\ Contains("GET", records[i].request)
       /\ \E e \in ImageExts : Contains(e, records[i].request)
  /\ Len(records) <= nread
  /\ (pc = "error" /\ page \in BadLines) => Len(records) < nread
  /\ (pc = "read" /\ page \in OtherLines) => Len(records) < nread

C1_Witness ==
  /\ pc = "read" /\ nread = 3 /\ Len(records) = 2 /\ page \in OtherLines

\* C2: a parsed record is a fetch if and only if its status is in
\* [200, 300), its request line contains GET, and its image filename (the
\* last segment of the path) contains jpg, png or gif.
C2_FetchIffImageFilename ==
  pc = "classify" =>
    (fetch(record) <=>
       /\ StatusNum(record) >= 200 /\ StatusNum(record) < 300
       /\ Contains("GET", record.request)
       /\ \E e \in ImageExts : Contains(e, record.image_filename))

\* C3: a record whose method, the first token of the request line, is not
\* GET is never a fetch, and a record with status 301, 404 or 500 is never
\* a fetch.
C3_NonGetNeverFetch ==
  pc = "classify" =>
    /\ (SplitWs(record.request, 1)[1] # "GET" => ~fetch(record))
    /\ (StatusNum(record) \in {301, 404, 500} => ~fetch(record))

\* C4: once aggregated, there is one entry per distinct client_id of the
\* store; a customer's hits is the number of its records and its
\* total_bytes the sum of their bytes; over all customers the total_bytes
\* add up to the bytes of the store and the hits to its size.
C4_AggregationMatchesStore ==
  Aggregated =>
    /\ DOMAIN stats = {records[i].client_id : i \in Idx}
    /\ \A c \in DOMAIN stats :
         /\ stats[c].hits = Cardinality({i \in Idx : records[i].client_id = c})
         /\ stats[c].total_bytes =
              SumOver({i \in Idx : records[i].client_id = c},
                      [i \in Idx |-> records[i].bytes])
    /\ SumOver(DOMAIN stats, [c \in DOMAIN stats |-> stats[c].total_bytes])
         = SumOver(Idx, [i \in Idx |-> records[i].bytes])
    /\ SumOver(DOMAIN stats, [c \in DOMAIN stats |-> stats[c].hits])
         = Len(records)

C4_Witness ==
  /\ pc = "scan_init"
  /\ Cardinality(DOMAIN stats) = 2
  /\ \E c \in DOMAIN stats : stats[c].hits = 2
  /\ Cardinality({records[i].request : i \in Idx}) = 2

\* byte counts as the log format writes them: none is negative
BytesNonNegative == \A i \in Idx : records[i].bytes >= 0

C6_EmptyStoreIsAnError ==
  records = << >> =>
    /\ steps = 0
    /\ report = NoReport
    /\ pc \in {"read", "classify", "aggregate", "scan_init", "error"}
    /\ (pc = "error" => error # "none")

C6_Witness ==
  /\ pc = "error" /\ error = "ValueError"
  /\ records = << >>
  /\ nread >= 1 /\ page \in OtherLines

\* C7: a step that reads a line that fails to parse leaves the store as it
\* was and ends the run in the error state.
C7_FailedLineLeavesStore ==
  [][(nread' = nread + 1 /\ page' \in BadLines)
       => (records' = records /\ pc' = "error" /\ error' # "none")]_vars

C7_Witness ==
  /\ pc = "error" /\ error = "IndexError"
  /\ page \in BadLines
  /\ Len(records) = 2

\* C8, as claimed: each of identd, user, referer and user_agent is absent
\* exactly when the source field is "-" and is the source text otherwise,
\* and a bytes field of "-" gives 0.
C8_FourFieldsDashIsAbsent ==
  pc = "classify" =>
    LET g == apache_common_format(page)
    IN  /\ \A f \in {"identd", "user", "referer", "user_agent"} :
             record[f] = IF g[f] = "-" THEN None ELSE Str(g[f])
        /\ (g.bytes = "-" => record.bytes = 0)

\* C8, amended: each of user, referer and user_agent is absent exactly when
\* the source field is "-" and is the source text otherwise, the empty
\* string included; identd is always the source text, "-" included; and a
\* bytes field of "-" gives 0.
C8_ThreeFieldsDashIsAbsent ==
  pc = "classify" =>
    LET g == apache_common_format(page)
    IN  /\ \A f \in {"user", "referer", "user_agent"} :
             record[f] = IF g[f] = "-" THEN None ELSE Str(g[f])
        /\ record.identd = Str(g.identd)
        /\ (g.bytes = "-" => record.bytes = 0)

C8_Witness ==
  /\ pc = "classify"
  /\ LET g == apache_common_format(page)
     IN  /\ g.identd = "-" /\ record.identd = Str("-")
         /\ g.user = "" /\ record.user = Str("")
         /\ g.referer = "" /\ record.referer = Str("")
         /\ g.user_agent = "-" /\ record.user_agent = None
         /\ g.bytes = "-" /\ record.bytes = 0

\* C9: the classifier leaves every field of the record as it was, the
\* value and type of status included, and a second call returns what the
\* first returned.
C9_FetchLeavesRecord ==
  [][pc = "classify" => (record' = record /\ fetch(record') = fetch(record))]_vars

\* C10: when the scan over a non-empty store of non-negative byte counts
\* has finished, also one whose byte counts are all 0, hits_time and
\* bytes_time each hold a sampled cursor value in [mintime, maxtime], the
\* earliest one at which the cumulative count reached its largest sampled
\* value.
C10_WindowStartsAssigned ==
  (ScanFinished /\ BytesNonNegative) =>
    /\ hits_time.bound
    /\ bytes_time.bound
    /\ hits_time.value \in Samples /\ bytes_time.value \in Samples
    /\ hits_time.value =
         Min({t \in Samples :
                CumRequests(t) = Max({CumRequests(u) : u \in Samples})})
    /\ bytes_time.value =
         Min({t \in Samples : CumBytes(t) = Max({CumBytes(u) : u \in Samples})})

====
